---------------------------- MODULE Spec2Model ----------------------------
(***************************************************************************)
(* Session and authenticated-request layer of the gift-card wallet client. *)
(*                                                                         *)
(*   services/api.ts      (src/unnamed/part_002, lines 157-350)            *)
(*       the axios instance `api`, its request interceptor, its response   *)
(*       interceptor (401 -> refresh -> replay) and authService            *)
(*   context/AuthContext  (src/frontend/.../utils/helpers.ts, 13-148)     *)
(*       AuthProvider: user / isLoading / isSignedIn, bootstrapAsync,      *)
(*       loadUserProfile, signIn, signUp, signOut                          *)
(*   navigation           (src/unnamed/part_007, lines 220-302)            *)
(*       what the UI lets the user start in each session state             *)
(*                                                                         *)
(* JavaScript is single threaded: a step of the model is the code that     *)
(* runs from the completion of one awaited operation (a storage call, a    *)
(* network call) to the next await.  The effect of an AsyncStorage call is *)
(* placed at its completion.  The server is the environment: every         *)
(* response it may give is a nondeterministic choice.  AsyncStorage calls  *)
(* succeed in Spec and SpecSession; in SpecFault any of them may throw.    *)
(*                                                                         *)
(* Tokens are numbered by the response that issued them: pair k is the     *)
(* access token and the refresh token of the k-th login/refresh response;  *)
(* None is an absent value.                                                *)
(***************************************************************************)
EXTENDS Naturals, FiniteSets, TLC

\* ------------------------------------------------------------- bounds
\* generic screen requests (giftCardService / vendorService calls)
NReq == 1
\* token pairs the server issues in one run (the stored pair is pair 1)
MaxIssue == 3

\* AsyncStorage.getItem yields null for a key that is not stored
None == 0

Reqs == {<<"req", i>> : i \in 1..NReq}
Boot == <<"boot", 0>>
Out == <<"out", 0>>
\* signIn (its loadUserProfile) and signUp (its register call)
In == <<"in", 0>>
Up == <<"up", 0>>
\* loadUserProfile called on its own through the context
Prof == <<"prof", 0>>
\* every caller of the axios instance `api`
Callers == Reqs \cup {Boot, Out, In, Up, Prof}

\* the credentials a user may type (LoginScreen, RegisterScreen)
Creds == {"alice", "bob"}

\* what the server may answer to a request
Responses == {"ok", "e401", "eHttp", "eNet"}

VARIABLES
    store,        \* AsyncStorage: [token, refreshToken]
    issued,       \* number of token pairs the server has issued
    user,         \* AuthProvider state: user (None = null)
    isLoading,    \* AuthProvider state
    isSignedIn,   \* AuthProvider state
    bpc,          \* bootstrapAsync: position
    opc,          \* signOut: position
    ores,         \* signOut: "none" | "returned" | "threw"
    cpc,          \* per caller: position of its call through `api`
    hdr,          \* per caller: config.headers.Authorization (token id)
    rt,           \* per caller: the handler's local refreshToken
    newPair,      \* per caller: response.data of the refresh call
    res,          \* per caller: how the call settled
    nRefresh,     \* per caller: refresh calls issued for the current request
    nReplay,      \* per caller: replays issued for the current request
    dirty,        \* per caller: another writer touched the store between
                  \*   this caller's two storage calls (set/set, remove/remove)
    early,        \* per caller: its 401 arrived before any refresh settled
    refreshSettled,   \* some refresh call has settled
    pendingAtSignOut, \* callers whose refresh call was in flight when
                      \*   signOut was invoked
    ipc,          \* signIn: position
    ires,         \* signIn: "none" | "returned" | "threwLogin" | "threwProfile"
    upc,          \* signUp: position
    ures,         \* signUp: "none" | "returned" | "threwRegister" | "threwSignIn"
    loginPair,    \* response.data of the login call
    nLogin,       \* login calls (POST /auth/token) issued
    loginCreds,   \* username/password of the last login call
    regCreds,     \* username/password of the register call
    loginAnswer,  \* what the server answered to the login call
    lpc,          \* loadUserProfile called on its own: position
    lres,         \* its outcome: "none" | "returned" | "threw"
    answer        \* per caller: what the server answered to the request
                  \*   as first sent ("none" while unanswered)

vars == <<store, issued, user, isLoading, isSignedIn, bpc, opc, ores, cpc,
          hdr, rt, newPair, res, nRefresh, nReplay, dirty, early,
          refreshSettled, pendingAtSignOut, ipc, ires, upc, ures, loginPair,
          nLogin, loginCreds, regCreds, loginAnswer, lpc, lres, answer>>

session == <<user, isLoading, isSignedIn>>
ops == <<bpc, opc, ores, pendingAtSignOut>>
auth == <<ipc, ires, upc, ures, loginPair, nLogin, loginCreds, regCreds,
          loginAnswer>>
prof == <<lpc, lres>>

\* ------------------------------------------------------------- helpers
Pair(k) == [token |-> k, refreshToken |-> k]
Empty == Pair(None)

\* writer w touches the store: every other caller that is between its two
\* storage calls has been interleaved with
MarkDirty(w) ==
    [q \in Callers |->
        IF q # w /\ cpc[q] \in {"set_rt", "rm_rt"} THEN TRUE ELSE dirty[q]]

\* request interceptor: the token read from AsyncStorage becomes the bearer
Bearer(s) == s.token

\* a fresh call through `api` by caller p
BeginCall(p) ==
    /\ cpc' = [cpc EXCEPT ![p] = "send"]
    /\ hdr' = [hdr EXCEPT ![p] = None]
    /\ rt' = [rt EXCEPT ![p] = None]
    /\ newPair' = [newPair EXCEPT ![p] = None]
    /\ res' = [res EXCEPT ![p] = "none"]
    /\ nRefresh' = [nRefresh EXCEPT ![p] = 0]
    /\ nReplay' = [nReplay EXCEPT ![p] = 0]
    /\ dirty' = [dirty EXCEPT ![p] = FALSE]
    /\ early' = [early EXCEPT ![p] = FALSE]
    /\ answer' = [answer EXCEPT ![p] = "none"]

\* the call of caller p settles with result r
Settle(p, r) ==
    /\ cpc' = [cpc EXCEPT ![p] = "done"]
    /\ res' = [res EXCEPT ![p] = r]
    /\ hdr' = [hdr EXCEPT ![p] = None]
    /\ rt' = [rt EXCEPT ![p] = None]
    /\ newPair' = [newPair EXCEPT ![p] = None]

Succeeded(p) == res[p] \in {"ok", "replayOk"}

\* what a settled call hands to its caller.  The response interceptor
\* rejects with the error object it was given (`Promise.reject(error)`),
\* and a replay made by `axios(error.config)` rejects with axios' own error:
\* no error is converted to another type
Outcome(r) ==
    CASE r \in {"ok", "replayOk"} -> "response"
      [] r \in {"orig401", "replay401"} -> "AxiosError:401"
      [] r \in {"eHttp", "replayErr"} -> "AxiosError:other"
      [] r = "eNet" -> "AxiosError:network"
      [] r = "eStorage" -> "AsyncStorage error"
      [] OTHER -> "pending"

\* ---------------------------------------------------------------- Init
\* everything but AsyncStorage, which outlives the process
InitMemory ==
    /\ issued = 1
    /\ user = None
    /\ isLoading = TRUE
    /\ isSignedIn = FALSE
    /\ bpc = "isAuth"
    /\ opc = "idle"
    /\ ores = "none"
    /\ cpc = [p \in Callers |-> "idle"]
    /\ hdr = [p \in Callers |-> None]
    /\ rt = [p \in Callers |-> None]
    /\ newPair = [p \in Callers |-> None]
    /\ res = [p \in Callers |-> "none"]
    /\ nRefresh = [p \in Callers |-> 0]
    /\ nReplay = [p \in Callers |-> 0]
    /\ dirty = [p \in Callers |-> FALSE]
    /\ early = [p \in Callers |-> FALSE]
    /\ refreshSettled = FALSE
    /\ pendingAtSignOut = {}
    /\ ipc = "idle"
    /\ ires = "none"
    /\ upc = "idle"
    /\ ures = "none"
    /\ loginPair = None
    /\ nLogin = 0
    /\ loginCreds = "none"
    /\ regCreds = "none"
    /\ loginAnswer = "none"
    /\ lpc = "idle"
    /\ lres = "none"
    /\ answer = [p \in Callers |-> "none"]

Init ==
    /\ store \in {Empty, Pair(1)}
    /\ InitMemory


\* ------------------------------------------- api.ts: the `api` gateway
\* request interceptor: await getItem('token'); attach it; dispatch
Send(p) ==
    /\ cpc[p] = "send"
    /\ hdr' = [hdr EXCEPT ![p] = Bearer(store)]
    /\ cpc' = [cpc EXCEPT ![p] = "inflight"]
    /\ UNCHANGED <<store, issued, session, ops, auth, prof, answer, rt, newPair, res, nRefresh,
                   nReplay, dirty, early, refreshSettled>>

IsUnauthorized_AnyFailure(r) == r # "ok"

\* `error.response && error.response.status === 401`
IsUnauthorized(r) == r = "e401"

\* response interceptor: a response passes, an error that is not a 401 is
\* rejected unchanged, a 401 enters the refresh handler
Respond(p, r) ==
    /\ cpc[p] = "inflight"
    /\ answer' = [answer EXCEPT ![p] = r]
    /\ IF IsUnauthorized(r)
       THEN /\ cpc' = [cpc EXCEPT ![p] = "h401"]
            /\ early' = [early EXCEPT ![p] = ~refreshSettled]
            /\ UNCHANGED <<hdr, rt, newPair, res>>
       ELSE /\ Settle(p, r)
            /\ UNCHANGED early
    /\ UNCHANGED <<store, issued, session, ops, auth, prof, nRefresh, nReplay, dirty,
                   refreshSettled>>

ShouldRefresh_Always(r) == TRUE

\* `if (!refreshToken)`: a refresh call is made only with a refresh token
ShouldRefresh(r) == r # None

\* 401 handler: await getItem('refreshToken'); without one start the
\* forced logout, with one POST /auth/refresh through the global axios
ReadRefreshToken(p) ==
    /\ cpc[p] = "h401"
    /\ rt' = [rt EXCEPT ![p] = store.refreshToken]
    /\ IF ShouldRefresh(store.refreshToken)
       THEN /\ cpc' = [cpc EXCEPT ![p] = "refreshing"]
            /\ nRefresh' = [nRefresh EXCEPT ![p] = @ + 1]
       ELSE /\ cpc' = [cpc EXCEPT ![p] = "rm_token"]
            /\ UNCHANGED nRefresh
    /\ UNCHANGED <<store, issued, session, ops, auth, prof, answer, hdr, newPair, res, nReplay,
                   dirty, early, refreshSettled>>

\* the refresh call settles: a new pair, or an error caught by the handler
RefreshRespond(p, r) ==
    /\ cpc[p] = "refreshing"
    /\ refreshSettled' = TRUE
    /\ IF r = "ok"
       THEN /\ issued < MaxIssue
            /\ issued' = issued + 1
            /\ newPair' = [newPair EXCEPT ![p] = issued + 1]
            /\ cpc' = [cpc EXCEPT ![p] = "set_token"]
       ELSE /\ cpc' = [cpc EXCEPT ![p] = "rm_token"]
            /\ UNCHANGED <<issued, newPair>>
    /\ UNCHANGED <<store, session, ops, auth, prof, answer, hdr, rt, res, nRefresh, nReplay,
                   dirty, early>>

\* await setItem('token', response.data.access_token)
StoreToken(p) ==
    /\ cpc[p] = "set_token"
    /\ store' = [store EXCEPT !.token = newPair[p]]
    /\ cpc' = [cpc EXCEPT ![p] = "set_rt"]
    /\ dirty' = [MarkDirty(p) EXCEPT ![p] = FALSE]
    /\ UNCHANGED <<issued, session, ops, auth, prof, answer, hdr, rt, newPair, res, nRefresh,
                   nReplay, early, refreshSettled>>

ReplayHeader_Stale(p) == hdr[p]

\* error.config.headers.Authorization = `Bearer ${response.data.access_token}`
ReplayHeader(p) == newPair[p]

\* await setItem('refreshToken', ...); then the original request is sent
\* again with the new bearer
StoreRefreshAndReplay(p) ==
    /\ cpc[p] = "set_rt"
    /\ store' = [store EXCEPT !.refreshToken = newPair[p]]
    /\ hdr' = [hdr EXCEPT ![p] = ReplayHeader(p)]
    /\ nReplay' = [nReplay EXCEPT ![p] = @ + 1]
    /\ cpc' = [cpc EXCEPT ![p] = "replaying"]
    /\ dirty' = [MarkDirty(p) EXCEPT ![p] = FALSE]
    /\ UNCHANGED <<issued, session, ops, auth, prof, answer, rt, newPair, res, nRefresh, early,
                   refreshSettled>>

ReplayIntercepted_ViaApi == TRUE

\* the replay is `axios(error.config)`: the global axios, which carries no
\* interceptor, not the instance `api`
ReplayIntercepted == FALSE

\* the replay settles; its outcome is what the caller receives
ReplayRespond(p, r) ==
    /\ cpc[p] = "replaying"
    /\ IF ReplayIntercepted /\ r = "e401"
       THEN /\ cpc' = [cpc EXCEPT ![p] = "h401"]
            /\ UNCHANGED <<hdr, rt, newPair, res>>
       ELSE Settle(p, CASE r = "ok" -> "replayOk"
                        [] r = "e401" -> "replay401"
                        [] OTHER -> "replayErr")
    /\ UNCHANGED <<store, issued, session, ops, auth, prof, answer, nRefresh, nReplay, dirty,
                   early, refreshSettled>>

KeysClearedOnFailure_TokenOnly == {"token"}

\* forced logout of the handler: removeItem('token'), removeItem('refreshToken')
KeysClearedOnFailure == {"token", "refreshToken"}

\* await removeItem('token') of the forced logout
RemoveToken(p) ==
    /\ cpc[p] = "rm_token"
    /\ store' = IF "token" \in KeysClearedOnFailure
                THEN [store EXCEPT !.token = None] ELSE store
    /\ cpc' = [cpc EXCEPT ![p] = "rm_rt"]
    /\ dirty' = [MarkDirty(p) EXCEPT ![p] = FALSE]
    /\ UNCHANGED <<issued, session, ops, auth, prof, answer, hdr, rt, newPair, res, nRefresh,
                   nReplay, early, refreshSettled>>

\* await removeItem('refreshToken'); return Promise.reject(error): the
\* caller gets the original 401 error
RemoveRefreshAndReject(p) ==
    /\ cpc[p] = "rm_rt"
    /\ store' = IF "refreshToken" \in KeysClearedOnFailure
                THEN [store EXCEPT !.refreshToken = None] ELSE store
    /\ Settle(p, "orig401")
    /\ dirty' = [MarkDirty(p) EXCEPT ![p] = FALSE]
    /\ UNCHANGED <<issued, session, ops, auth, prof, answer, nRefresh, nReplay, early,
                   refreshSettled>>

\* one step of the call of caller p through `api`
Gateway(p) ==
    \/ Send(p)
    \/ \E r \in Responses : Respond(p, r)
    \/ ReadRefreshToken(p)
    \/ \E r \in Responses : RefreshRespond(p, r)
    \/ StoreToken(p)
    \/ StoreRefreshAndReplay(p)
    \/ \E r \in Responses : ReplayRespond(p, r)
    \/ RemoveToken(p)
    \/ RemoveRefreshAndReject(p)

\* ------------------------------------------------ screens (navigation)
\* a screen of the signed-in stack issues a request (giftCardService,
\* vendorService); the stack is mounted when !isLoading && isSignedIn
StartRequest(p) ==
    /\ bpc = "done"
    /\ isSignedIn /\ ~isLoading
    /\ cpc[p] = "idle"
    /\ BeginCall(p)
    /\ UNCHANGED <<store, issued, session, ops, auth, prof, refreshSettled>>

\* the call state of every caller is left alone
CallsUnchanged ==
    UNCHANGED <<cpc, hdr, rt, newPair, res, nRefresh, nReplay, early, answer>>

\* ------------------------------------- AuthContext: bootstrapAsync
\* await authService.isAuthenticated(): !!getItem('token'); with a token
\* loadUserProfile() is called, without one the finally block ends it
BootIsAuth ==
    /\ bpc = "isAuth"
    /\ IF store.token # None
       THEN /\ bpc' = "profile"
            /\ BeginCall(Boot)
            /\ UNCHANGED <<session, dirty>>
       ELSE /\ bpc' = "done"
            /\ isLoading' = FALSE
            /\ UNCHANGED <<user, isSignedIn, dirty>>
            /\ CallsUnchanged
    /\ UNCHANGED <<store, issued, opc, ores, pendingAtSignOut, refreshSettled>>
    /\ UNCHANGED auth
    /\ UNCHANGED prof

\* loadUserProfile: getUserProfile() settled.  Success: setUser(userData).
\* Failure: rethrown, caught by bootstrapAsync: authService.logout() starts
\* with api.post('/auth/logout')
BootProfileSettled ==
    /\ bpc = "profile"
    /\ cpc[Boot] = "done"
    /\ IF Succeeded(Boot)
       THEN /\ user' = 1
            /\ bpc' = "setSignedIn"
            /\ UNCHANGED <<isLoading, isSignedIn, dirty>>
            /\ CallsUnchanged
       ELSE /\ bpc' = "logout"
            /\ BeginCall(Boot)
            /\ UNCHANGED session
    /\ UNCHANGED <<store, issued, opc, ores, pendingAtSignOut, refreshSettled>>
    /\ UNCHANGED auth
    /\ UNCHANGED prof

\* after `await loadUserProfile()`: setIsSignedIn(true); finally
\* setIsLoading(false)
BootSetSignedIn ==
    /\ bpc = "setSignedIn"
    /\ isSignedIn' = TRUE
    /\ isLoading' = FALSE
    /\ bpc' = "done"
    /\ UNCHANGED <<store, issued, user, opc, ores, pendingAtSignOut, dirty,
                   refreshSettled>>
    /\ CallsUnchanged
    /\ UNCHANGED auth
    /\ UNCHANGED prof

\* authService.logout: the keys its finally block removes
LogoutRemoves_TokenOnly == {"token"}
LogoutRemoves == {"token", "refreshToken"}

\* authService.logout, finally block: await removeItem('token')
BootLogoutRemoveToken ==
    /\ bpc = "logout"
    /\ cpc[Boot] = "done"
    /\ store' = IF "token" \in LogoutRemoves
                THEN [store EXCEPT !.token = None] ELSE store
    /\ dirty' = MarkDirty(Boot)
    /\ bpc' = "logoutRt"
    /\ UNCHANGED <<issued, session, opc, ores, pendingAtSignOut,
                   refreshSettled>>
    /\ CallsUnchanged
    /\ UNCHANGED auth
    /\ UNCHANGED prof

\* await removeItem('refreshToken'); logout returns or rethrows the error
\* of api.post; bootstrapAsync: setIsSignedIn(false) or the outer catch,
\* then finally setIsLoading(false)
BootLogoutRemoveRefresh ==
    /\ bpc = "logoutRt"
    /\ store' = IF "refreshToken" \in LogoutRemoves
                THEN [store EXCEPT !.refreshToken = None] ELSE store
    /\ dirty' = MarkDirty(Boot)
    /\ isSignedIn' = IF Succeeded(Boot) THEN FALSE ELSE isSignedIn
    /\ isLoading' = FALSE
    /\ bpc' = "done"
    /\ UNCHANGED <<issued, user, opc, ores, pendingAtSignOut, refreshSettled>>
    /\ CallsUnchanged
    /\ UNCHANGED auth
    /\ UNCHANGED prof

\* ------------------------------------------- AuthContext: signOut
\* signUp's `await signIn(...)` has settled and signUp has not resumed: a
\* promise continuation runs before the next touch event is delivered
ContinuationPending == upc = "signIn" /\ ipc = "done"

\* the logout icon of the Home screen: signOut(): setIsLoading(true);
\* authService.logout() starts with api.post('/auth/logout')
StartSignOut ==
    /\ bpc = "done"
    /\ isSignedIn /\ ~isLoading
    /\ opc = "idle"
    /\ ~ContinuationPending
    /\ isLoading' = TRUE
    /\ opc' = "logout"
    /\ pendingAtSignOut' = {p \in Callers : cpc[p] = "refreshing"}
    /\ BeginCall(Out)
    /\ UNCHANGED <<store, issued, user, isSignedIn, bpc, ores, refreshSettled>>
    /\ UNCHANGED auth
    /\ UNCHANGED prof

\* authService.logout, finally block: await removeItem('token')
SignOutRemoveToken ==
    /\ opc = "logout"
    /\ cpc[Out] = "done"
    /\ store' = IF "token" \in LogoutRemoves
                THEN [store EXCEPT !.token = None] ELSE store
    /\ dirty' = MarkDirty(Out)
    /\ opc' = "logoutRt"
    /\ UNCHANGED <<issued, session, bpc, ores, pendingAtSignOut,
                   refreshSettled>>
    /\ CallsUnchanged
    /\ UNCHANGED auth
    /\ UNCHANGED prof

SignOutFinally_OnReturn(returned) == returned

\* signOut's `finally { setIsLoading(false) }` runs however the try block
\* was left
SignOutFinally(returned) == TRUE

\* await removeItem('refreshToken').  logout returned: setUser(null);
\* setIsSignedIn(false).  logout is try/finally without a catch, so an error
\* of api.post leaves it and signOut's catch rethrows it.  Both: finally
\* setIsLoading(false)
SignOutRemoveRefresh ==
    /\ opc = "logoutRt"
    /\ store' = IF "refreshToken" \in LogoutRemoves
                THEN [store EXCEPT !.refreshToken = None] ELSE store
    /\ dirty' = MarkDirty(Out)
    /\ IF Succeeded(Out)
       THEN /\ user' = None
            /\ isSignedIn' = FALSE
            /\ ores' = "returned"
       ELSE /\ ores' = "threw"
            /\ UNCHANGED <<user, isSignedIn>>
    /\ isLoading' = IF SignOutFinally(Succeeded(Out)) THEN FALSE ELSE isLoading
    /\ opc' = "done"
    /\ UNCHANGED <<issued, bpc, pendingAtSignOut, refreshSettled>>
    /\ CallsUnchanged
    /\ UNCHANGED auth
    /\ UNCHANGED prof

\* -------------------------------------------- AuthContext: signIn
\* the body of signIn up to its first await: setIsLoading(true);
\* authService.login posts the credentials with the global axios
EnterSignIn(c) ==
    /\ isLoading' = TRUE
    /\ ipc' = "login"
    /\ nLogin' = nLogin + 1
    /\ loginCreds' = c

\* the Login screen (shown while signed out and not loading): signIn(c)
StartSignIn(c) ==
    /\ bpc = "done"
    /\ ~isSignedIn /\ ~isLoading
    /\ ipc = "idle" /\ upc = "idle"
    /\ EnterSignIn(c)
    /\ UNCHANGED <<store, issued, user, isSignedIn, ops, ires, upc, ures,
                   loginPair, regCreds, dirty, refreshSettled>>
    /\ CallsUnchanged
    /\ UNCHANGED loginAnswer
    /\ UNCHANGED prof

\* signIn has no loop around authService.login
SignInRetriesLogin_Once == nLogin < 2
SignInRetriesLogin == FALSE

\* the keys authService.login writes from response.data
LoginWrites == {"token", "refreshToken"}

LoginIntercepted_ViaApi == TRUE

\* authService.login posts with the global axios, which carries no
\* interceptor, not with the instance `api`
LoginIntercepted == FALSE

\* POST /auth/token answers.  2xx: response.data is a new pair.  Anything
\* else: login throws, signIn's catch rethrows, finally setIsLoading(false)
LoginRespond(r) ==
    /\ ipc = "login"
    /\ loginAnswer' = r
    /\ IF r = "ok"
       THEN /\ issued < MaxIssue
            /\ issued' = issued + 1
            /\ loginPair' = issued + 1
            /\ ipc' = "set_token"
            /\ UNCHANGED <<isLoading, ires, nLogin>>
            /\ CallsUnchanged
       ELSE IF LoginIntercepted /\ IsUnauthorized(r)
       THEN /\ cpc' = [cpc EXCEPT ![In] = "h401"]
            /\ UNCHANGED <<issued, loginPair, ipc, isLoading, ires, nLogin,
                           hdr, rt, newPair, res, nRefresh, nReplay, early,
                           answer>>
       ELSE IF SignInRetriesLogin
       THEN /\ nLogin' = nLogin + 1
            /\ UNCHANGED <<issued, loginPair, ipc, isLoading, ires>>
            /\ CallsUnchanged
       ELSE /\ ipc' = "done"
            /\ ires' = "threwLogin"
            /\ isLoading' = FALSE
            /\ UNCHANGED <<issued, loginPair, nLogin>>
            /\ CallsUnchanged
    /\ UNCHANGED <<store, user, isSignedIn, ops, upc, ures, loginCreds,
                   regCreds, dirty, refreshSettled>>
    /\ UNCHANGED prof

\* await AsyncStorage.setItem('token', response.data.access_token)
LoginStoreToken ==
    /\ ipc = "set_token"
    /\ store' = IF "token" \in LoginWrites
                THEN [store EXCEPT !.token = loginPair] ELSE store
    /\ dirty' = MarkDirty(In)
    /\ ipc' = "set_rt"
    /\ UNCHANGED <<issued, session, ops, ires, upc, ures, loginPair, nLogin,
                   loginCreds, regCreds, refreshSettled>>
    /\ CallsUnchanged
    /\ UNCHANGED loginAnswer
    /\ UNCHANGED prof

\* await AsyncStorage.setItem('refreshToken', response.data.refresh_token);
\* login returns; loadUserProfile(): userService.getUserProfile() starts
\* with api.get('/users/me')
LoginStoreRefresh ==
    /\ ipc = "set_rt"
    /\ store' = IF "refreshToken" \in LoginWrites
                THEN [store EXCEPT !.refreshToken = loginPair] ELSE store
    /\ ipc' = "profile"
    /\ BeginCall(In)
    /\ UNCHANGED <<issued, session, ops, ires, upc, ures, loginPair, nLogin,
                   loginCreds, regCreds, refreshSettled>>
    /\ UNCHANGED loginAnswer
    /\ UNCHANGED prof

\* loadUserProfile: getUserProfile() settled.  Success: setUser(userData).
\* Failure: rethrown by loadUserProfile and by signIn's catch; finally
\* setIsLoading(false)
SignInProfileSettled ==
    /\ ipc = "profile"
    /\ cpc[In] = "done"
    /\ IF Succeeded(In)
       THEN /\ user' = 1
            /\ ipc' = "setSignedIn"
            /\ UNCHANGED <<isLoading, ires>>
       ELSE /\ ipc' = "done"
            /\ ires' = "threwProfile"
            /\ isLoading' = FALSE
            /\ UNCHANGED user
    /\ UNCHANGED <<store, issued, isSignedIn, ops, upc, ures, loginPair,
                   nLogin, loginCreds, regCreds, dirty, refreshSettled>>
    /\ CallsUnchanged
    /\ UNCHANGED loginAnswer
    /\ UNCHANGED prof

\* after `await loadUserProfile()`: setIsSignedIn(true); finally
\* setIsLoading(false)
SignInSetSignedIn ==
    /\ ipc = "setSignedIn"
    /\ isSignedIn' = TRUE
    /\ isLoading' = FALSE
    /\ ipc' = "done"
    /\ ires' = "returned"
    /\ UNCHANGED <<store, issued, user, ops, upc, ures, loginPair, nLogin,
                   loginCreds, regCreds, dirty, refreshSettled>>
    /\ CallsUnchanged
    /\ UNCHANGED loginAnswer
    /\ UNCHANGED prof

\* -------------------------------------------- AuthContext: signUp
\* the Register screen: signUp(userData): setIsLoading(true);
\* authService.register starts with api.post('/auth/register', userData)
StartSignUp(c) ==
    /\ bpc = "done"
    /\ ~isSignedIn /\ ~isLoading
    /\ ipc = "idle" /\ upc = "idle"
    /\ isLoading' = TRUE
    /\ upc' = "register"
    /\ regCreds' = c
    /\ BeginCall(Up)
    /\ UNCHANGED <<store, issued, user, isSignedIn, ops, ipc, ires, ures,
                   loginPair, nLogin, loginCreds, refreshSettled>>
    /\ UNCHANGED loginAnswer
    /\ UNCHANGED prof

\* `await signIn(...)` is reached only when `await register(...)` returned
SignUpProceeds_Always(registered) == TRUE
SignUpProceeds(registered) == registered

\* register settled.  Returned: signIn(userData.username,
\* userData.password) runs up to its first await.  Threw: signUp's catch
\* rethrows, finally setIsLoading(false)
SignUpRegisterSettled ==
    /\ upc = "register"
    /\ cpc[Up] = "done"
    /\ IF SignUpProceeds(Succeeded(Up))
       THEN /\ upc' = "signIn"
            /\ EnterSignIn(regCreds)
            /\ UNCHANGED ures
       ELSE /\ upc' = "done"
            /\ ures' = "threwRegister"
            /\ isLoading' = FALSE
            /\ UNCHANGED <<ipc, nLogin, loginCreds>>
    /\ UNCHANGED <<store, issued, user, isSignedIn, ops, ires, loginPair,
                   regCreds, dirty, refreshSettled>>
    /\ CallsUnchanged
    /\ UNCHANGED loginAnswer
    /\ UNCHANGED prof

\* the nested signIn settled (its own finally has run); signUp resumes:
\* returns, or its catch rethrows; finally setIsLoading(false)
SignUpSignInSettled ==
    /\ upc = "signIn"
    /\ ipc = "done"
    /\ upc' = "done"
    /\ ures' = IF ires = "returned" THEN "returned" ELSE "threwSignIn"
    /\ isLoading' = FALSE
    /\ UNCHANGED <<store, issued, user, isSignedIn, ops, ipc, ires,
                   loginPair, nLogin, loginCreds, regCreds, dirty,
                   refreshSettled>>
    /\ CallsUnchanged
    /\ UNCHANGED loginAnswer
    /\ UNCHANGED prof

\* ------------------------------------- AuthContext: loadUserProfile
\* a consumer of the context calls loadUserProfile() while signed in:
\* userService.getUserProfile() starts with api.get('/users/me')
StartLoadProfile ==
    /\ bpc = "done"
    /\ isSignedIn /\ ~isLoading
    /\ lpc = "idle"
    /\ ~ContinuationPending
    /\ lpc' = "fetch"
    /\ BeginCall(Prof)
    /\ UNCHANGED <<store, issued, session, ops, auth, lres, refreshSettled>>

\* getUserProfile() settled.  Success: setUser(userData).  Failure:
\* console.error and `throw error`, nothing else
LoadProfileSettled ==
    /\ lpc = "fetch"
    /\ cpc[Prof] = "done"
    /\ lpc' = "done"
    /\ IF Succeeded(Prof)
       THEN /\ user' = 1
            /\ lres' = "returned"
       ELSE /\ lres' = "threw"
            /\ UNCHANGED user
    /\ UNCHANGED <<store, issued, isLoading, isSignedIn, ops, auth, dirty,
                   refreshSettled>>
    /\ CallsUnchanged

\* ------------------------------------------ AsyncStorage failures
\* bootstrapAsync wraps its whole body in try/catch: the catch logs
BootCatches_Nothing == FALSE
BootCatches == TRUE

\* how bootstrapAsync ends when an error reaches its outer try
BootEnd == IF BootCatches THEN "done" ELSE "threw"

\* getItem('token') of isAuthenticated throws: the outer catch logs it,
\* finally setIsLoading(false)
BootIsAuthThrows ==
    /\ bpc = "isAuth"
    /\ bpc' = BootEnd
    /\ isLoading' = FALSE
    /\ UNCHANGED <<store, issued, user, isSignedIn, opc, ores,
                   pendingAtSignOut, auth, prof, dirty, refreshSettled>>
    /\ CallsUnchanged

\* getItem('token') of the request interceptor throws: nothing is sent,
\* the rejection runs through the response interceptor's error handler
\* (no error.response) and reaches the caller
SendThrows(p) ==
    /\ cpc[p] = "send"
    /\ Settle(p, "eStorage")
    /\ UNCHANGED <<store, issued, session, ops, auth, prof, answer, nRefresh,
                   nReplay, dirty, early, refreshSettled>>

\* inside the handler's try, getItem('refreshToken') or one of the two
\* setItem calls throws: the catch starts the forced logout
HandlerThrows(p) ==
    /\ cpc[p] \in {"h401", "set_token", "set_rt"}
    /\ cpc' = [cpc EXCEPT ![p] = "rm_token"]
    /\ UNCHANGED <<store, issued, session, ops, auth, prof, answer, hdr, rt,
                   newPair, res, nRefresh, nReplay, dirty, early,
                   refreshSettled>>

\* removeItem of the forced logout throws and keeps throwing: the error
\* leaves the catch block and the caller gets it instead of the 401
HandlerRemoveThrows(p) ==
    /\ cpc[p] \in {"rm_token", "rm_rt"}
    /\ Settle(p, "eStorage")
    /\ UNCHANGED <<store, issued, session, ops, auth, prof, answer, nRefresh,
                   nReplay, dirty, early, refreshSettled>>

\* a removeItem in the finally block of authService.logout throws inside
\* bootstrapAsync: the outer catch logs it, finally setIsLoading(false)
BootLogoutThrows ==
    /\ \/ bpc = "logout" /\ cpc[Boot] = "done"
       \/ bpc = "logoutRt"
    /\ bpc' = BootEnd
    /\ isLoading' = FALSE
    /\ UNCHANGED <<store, issued, user, isSignedIn, opc, ores,
                   pendingAtSignOut, auth, prof, dirty, refreshSettled>>
    /\ CallsUnchanged

\* the same inside signOut: its catch rethrows, finally setIsLoading(false)
SignOutLogoutThrows ==
    /\ \/ opc = "logout" /\ cpc[Out] = "done"
       \/ opc = "logoutRt"
    /\ opc' = "done"
    /\ ores' = "threw"
    /\ isLoading' = IF SignOutFinally(FALSE) THEN FALSE ELSE isLoading
    /\ UNCHANGED <<store, issued, user, isSignedIn, bpc, pendingAtSignOut,
                   auth, prof, dirty, refreshSettled>>
    /\ CallsUnchanged

\* one of the two setItem calls of authService.login throws: login throws,
\* signIn's catch rethrows, finally setIsLoading(false)
LoginStoreThrows ==
    /\ ipc \in {"set_token", "set_rt"}
    /\ ipc' = "done"
    /\ ires' = "threwStorage"
    /\ isLoading' = FALSE
    /\ UNCHANGED <<store, issued, user, isSignedIn, ops, upc, ures, loginPair,
                   nLogin, loginCreds, regCreds, loginAnswer, prof, dirty,
                   refreshSettled>>
    /\ CallsUnchanged

\* ------------------------------------------------------ specification
Next ==
    \/ \E p \in Callers : Gateway(p)
    \/ \E p \in Reqs : StartRequest(p)
    \/ BootIsAuth
    \/ BootProfileSettled
    \/ BootSetSignedIn
    \/ BootLogoutRemoveToken
    \/ BootLogoutRemoveRefresh
    \/ StartSignOut
    \/ SignOutRemoveToken
    \/ SignOutRemoveRefresh

Spec == Init /\ [][Next]_vars

\* The session operations alone, from any content of AsyncStorage a former
\* run may have left (either key may be missing on its own)
InitSession ==
    /\ store \in [token : {None, 1}, refreshToken : {None, 1}]
    /\ InitMemory

NextSession ==
    \/ \E p \in {Boot, Out, In, Up, Prof} : Gateway(p)
    \/ BootIsAuth
    \/ BootProfileSettled
    \/ BootSetSignedIn
    \/ BootLogoutRemoveToken
    \/ BootLogoutRemoveRefresh
    \/ \E c \in Creds : StartSignIn(c)
    \/ \E r \in Responses : LoginRespond(r)
    \/ LoginStoreToken
    \/ LoginStoreRefresh
    \/ SignInProfileSettled
    \/ SignInSetSignedIn
    \/ \E c \in Creds : StartSignUp(c)
    \/ SignUpRegisterSettled
    \/ SignUpSignInSettled
    \/ StartLoadProfile
    \/ LoadProfileSettled
    \/ StartSignOut
    \/ SignOutRemoveToken
    \/ SignOutRemoveRefresh

SpecSession == InitSession /\ [][NextSession]_vars

\* The session operations one after the other (no loadUserProfile on its
\* own), with AsyncStorage calls that may throw
NextFault ==
    \/ \E p \in {Boot, Out, In, Up} :
        \/ Gateway(p)
        \/ SendThrows(p)
        \/ HandlerThrows(p)
        \/ HandlerRemoveThrows(p)
    \/ BootIsAuth
    \/ BootIsAuthThrows
    \/ BootProfileSettled
    \/ BootSetSignedIn
    \/ BootLogoutRemoveToken
    \/ BootLogoutRemoveRefresh
    \/ BootLogoutThrows
    \/ \E c \in Creds : StartSignIn(c)
    \/ \E r \in Responses : LoginRespond(r)
    \/ LoginStoreToken
    \/ LoginStoreRefresh
    \/ LoginStoreThrows
    \/ SignInProfileSettled
    \/ SignInSetSignedIn
    \/ \E c \in Creds : StartSignUp(c)
    \/ SignUpRegisterSettled
    \/ SignUpSignInSettled
    \/ StartSignOut
    \/ SignOutRemoveToken
    \/ SignOutRemoveRefresh
    \/ SignOutLogoutThrows

SpecFault == InitSession /\ [][NextFault]_vars

\* every call settles and every continuation runs: a pending step of the
\* event loop is eventually taken
SpecFaultFair == SpecFault /\ WF_vars(NextFault)

\* no operation and no call is in progress
Quiescent ==
    /\ bpc = "done"
    /\ opc \in {"idle", "done"}
    /\ \A p \in Callers : cpc[p] \in {"idle", "done"}

TypeOK ==
    /\ store \in [token : 0..MaxIssue, refreshToken : 0..MaxIssue]
    /\ issued \in 1..MaxIssue
    /\ user \in {None, 1}
    /\ isLoading \in BOOLEAN /\ isSignedIn \in BOOLEAN
    /\ loginPair \in 0..MaxIssue
    /\ nLogin \in 0..2
    /\ loginAnswer \in Responses \cup {"none"}
    /\ answer \in [Callers -> Responses \cup {"none"}]
    /\ loginCreds \in Creds \cup {"none"} /\ regCreds \in Creds \cup {"none"}

\* --------------------------------------------------------------- claims
Replayed(p) == res[p] \in {"replayOk", "replay401", "replayErr"}
RefreshInFlight == {p \in Callers : cpc[p] = "refreshing"}

\* C1: requests that receive a 401 while a refresh call is outstanding
\* attach to it: at no time are two refresh calls (POST /auth/refresh)
\* outstanding, so N requests that fail before any refresh completes
\* cause exactly one refresh call.
C1_OneRefreshCall == Cardinality(RefreshInFlight) <= 1

\* C2: signOut was invoked while a refresh call was in flight and that
\* refresh later succeeded (its request was replayed): once everything has
\* settled TokenStore holds neither token and the session is
\* Unauthenticated.  Stated for a signOut that returned normally, so that
\* a failing logout call (C4) is not what decides it.
C2_NoTokensAfterSignOut ==
    (/\ Quiescent
     /\ ores = "returned"
     /\ \E p \in pendingAtSignOut : Replayed(p))
    => (store = Empty /\ ~isSignedIn)

\* C3: after a refresh triggered by a 401 has failed (no refresh token, or
\* the refresh call rejected) and the failure has been handled, the
\* session is Unauthenticated: no quiescent state has isSignedIn true
\* with a request that was failed by a failed refresh.
C3_FailedRefreshSignsOut ==
    (Quiescent /\ \E p \in Callers : cpc[p] = "done" /\ res[p] = "orig401")
    => ~isSignedIn

\* C4: a signOut invoked in Authenticated ends in Unauthenticated
\* (isSignedIn false, user null, isLoading false) and returns normally,
\* whatever the outcome of the logout call.
C4_SignOutEndsUnauthenticated ==
    opc = "done"
    => (~isSignedIn /\ user = None /\ ~isLoading /\ ores = "returned")

\* C5: requests that each received a 401 before any refresh completed have
\* uniform outcomes: never is one of them replayed while another is failed
\* by a failed refresh.
C5_UniformOutcome ==
    \A p, q \in Callers :
        (/\ cpc[p] = "done" /\ cpc[q] = "done"
         /\ early[p] /\ early[q])
        => ~(Replayed(p) /\ res[q] = "orig401")

\* C6: a request whose refresh call was pending when signOut was invoked
\* is never replayed.
C6_NoReplayAfterSignOut == \A p \in pendingAtSignOut : nReplay[p] = 0

\* the two steps of the handler's forced logout
C7_FailureStep ==
    \A p \in Callers :
        /\ (cpc[p] = "rm_token" /\ cpc'[p] # "rm_token")
            => (cpc'[p] = "rm_rt" /\ store'.token = None)
        /\ (cpc[p] = "rm_rt" /\ cpc'[p] # "rm_rt")
            => /\ cpc'[p] = "done" /\ res'[p] = "orig401"
               /\ nReplay'[p] = 0
               /\ store'.refreshToken = None
               /\ (~dirty[p] => store' = Empty)
\* a request on, or settled by, the forced logout was not replayed
C7_FailureState ==
    \A p \in Callers :
        /\ cpc[p] \in {"rm_token", "rm_rt"} => nReplay[p] = 0
        /\ (cpc[p] = "h401" /\ nRefresh[p] = 0) => nReplay[p] = 0
        /\ cpc[p] = "done" =>
            /\ res[p] = "orig401" => nReplay[p] = 0
            /\ (nRefresh[p] >= 1 /\ nReplay[p] = 0) => res[p] = "orig401"
\* C7: when a refresh attempt fails (no refresh token, refresh call
\* rejected or in error) the handler removes both stored tokens and fails
\* the request with its 401 without replaying it: the step that rejects
\* leaves no refresh token, leaves TokenStore empty when no other writer
\* came between the two removals, and a request whose refresh call did not
\* lead to a replay ends rejected with the original 401.
C7_RefreshFailureClearsAndRejects ==
    []C7_FailureState /\ [][C7_FailureStep]_vars

\* C7 witness: a request rejected after its refresh call failed, with
\* TokenStore emptied
C7_Witness ==
    \E p \in Callers :
        cpc[p] = "done" /\ res[p] = "orig401" /\ nRefresh[p] = 1
        /\ store = Empty

\* the steps of the handler after a successful refresh call
C8_ReplayStep ==
    \A p \in Callers :
        /\ (cpc[p] = "set_token" /\ cpc'[p] # "set_token")
            => (cpc'[p] = "set_rt" /\ store'.token = newPair[p]
                /\ nReplay'[p] = nReplay[p])
        /\ (cpc[p] = "set_rt" /\ cpc'[p] # "set_rt")
            => /\ cpc'[p] = "replaying"
               /\ hdr'[p] = newPair[p]
               /\ store'.refreshToken = newPair[p]
               /\ (~dirty[p] => store' = Pair(newPair[p]))
        /\ (cpc[p] = "replaying" /\ cpc'[p] # "replaying")
            => /\ cpc'[p] = "done"
               /\ res'[p] \in {"replayOk", "replay401", "replayErr"}
\* nothing is replayed before the pair is written; a replay carries it
C8_ReplayState ==
    \A p \in Callers :
        /\ cpc[p] \in {"set_token", "set_rt"} => (newPair[p] # None /\ nReplay[p] = 0)
        /\ cpc[p] = "replaying" => (hdr[p] = newPair[p] /\ newPair[p] # None)
\* C8: after a successful refresh the new pair is persisted, then the
\* request is replayed with the new access token as bearer, and the
\* replay's outcome is what the caller receives; when no other writer came
\* between the two writes TokenStore holds exactly the refreshed pair.
C8_PersistThenReplay == []C8_ReplayState /\ [][C8_ReplayStep]_vars

\* C8 witness: a replay in flight with the refreshed pair in TokenStore
C8_Witness ==
    \E p \in Callers :
        cpc[p] = "replaying" /\ store = Pair(newPair[p]) /\ hdr[p] = newPair[p]

\* C9: a request causes at most one refresh call and is replayed at most
\* once; a replay answered with 401 settles the request.
C9_AtMostOneRefreshAndReplay ==
    \A p \in Callers :
        /\ nRefresh[p] <= 1
        /\ nReplay[p] <= 1
        /\ res[p] = "replay401" => cpc[p] = "done"

\* C9 witness: a replayed request answered with a second 401 has settled
C9_Witness ==
    \E p \in Callers :
        cpc[p] = "done" /\ res[p] = "replay401"
        /\ nRefresh[p] = 1 /\ nReplay[p] = 1

C11_RejectedWithAuthExpired ==
    \A p \in Callers :
        (cpc[p] = "done" /\ res[p] \in {"orig401", "replay401"})
        => Outcome(res[p]) = "AuthExpired"

\* C12: when the logout operation of a signOut settles, TokenStore holds
\* neither 'token' nor 'refreshToken', whatever the logout request's
\* outcome.
C12_LogoutLeavesNoTokens ==
    [][(opc = "logoutRt" /\ opc' = "done") => store' = Empty]_vars

\* a bootstrap, signIn, signUp or signOut has started and not settled
OpInProgress ==
    \/ bpc # "done"
    \/ ipc \notin {"idle", "done"}
    \/ upc \notin {"idle", "done"}
    \/ opc \notin {"idle", "done"}

\* C13: in every reachable state isLoading is true if and only if a
\* bootstrap, signIn, signUp or signOut is in progress, the signIn nested
\* in a signUp included.
C13_LoadingIffInProgress == isLoading <=> OpInProgress

\* C14: isLoading and isSignedIn are never both true, in particular not
\* while a signOut is in progress.
C14_NotLoadingAndSignedIn == ~(isLoading /\ isSignedIn)

\* C15: in every reachable state the user profile is non-null if and only
\* if isSignedIn is true.
C15_UserIffSignedIn == (user # None) <=> isSignedIn

\* C16: a signIn started in Unauthenticated whose login call and profile
\* fetch both succeed ends Authenticated (isSignedIn true, isLoading
\* false) with the fetched profile as user and with TokenStore equal to
\* the pair the login endpoint returned.
C16_SignInSucceeds ==
    [][(ipc = "setSignedIn" /\ ipc' = "done" /\ answer[In] = "ok")
       => /\ isSignedIn' /\ ~isLoading' /\ user' = 1
          /\ store' = Pair(loginPair)]_vars

\* how a signIn ends when it does not return
C17_Step ==
    (ipc # "done" /\ ipc' = "done" /\ ires' # "returned")
    => /\ ~isSignedIn' /\ ~isLoading'
       /\ nLogin' = 1
       /\ ipc = "login" => ires' = "threwLogin"
       /\ ipc = "profile" => (ires' = "threwProfile" /\ ~Succeeded(In))
       /\ ipc \in {"login", "profile"}
\* a signIn issues its login call when it starts and no other
C17_State ==
    /\ nLogin <= 1
    /\ ipc # "idle" => nLogin = 1
    /\ ires = "threwLogin" => loginPair = None
\* C17: a signIn whose login call is rejected or whose profile fetch fails
\* ends Unauthenticated (isSignedIn false, isLoading false) with that
\* first error thrown to its caller, and without a retry:
\* exactly one login call is issued per signIn.
C17_FailedSignIn == []C17_State /\ [][C17_Step]_vars

\* C17 witness: a signIn ended by a failed profile fetch after one login
C17_Witness ==
    /\ ipc = "done" /\ ires = "threwProfile"
    /\ nLogin = 1 /\ ~isSignedIn /\ ~isLoading

\* C18: signUp issues the register call first and the login call only
\* after the register call succeeded, with the same username and password;
\* when registration fails no login call is issued, the session ends
\* Unauthenticated and the registration error is thrown to the caller.
C18_RegisterThenLogin ==
    /\ upc = "register" => (nLogin = 0 /\ ipc = "idle" /\ regCreds \in Creds)
    /\ (upc = "signIn" \/ (upc = "done" /\ ures # "threwRegister"))
        => (Succeeded(Up) /\ nLogin = 1 /\ loginCreds = regCreds)
    /\ (upc = "done" /\ ures = "threwRegister")
        => /\ ~Succeeded(Up) /\ nLogin = 0 /\ ipc = "idle"
           /\ ~isSignedIn /\ ~isLoading

\* C18 witness: a signUp ended by a failed registration, no login call
C18_Witness ==
    /\ upc = "done" /\ ures = "threwRegister"
    /\ cpc[Up] = "done" /\ ~Succeeded(Up)
    /\ nLogin = 0 /\ ~isSignedIn /\ ~isLoading

\* the steps of bootstrapAsync once a token was found
C19_Step ==
    /\ (bpc = "isAuth" /\ bpc' # "isAuth" /\ store.token # None)
        => bpc' = "profile"
    /\ (bpc = "profile" /\ bpc' # "profile")
        => bpc' = IF Succeeded(Boot) THEN "setSignedIn" ELSE "logout"
    /\ (bpc = "setSignedIn" /\ bpc' # "setSignedIn")
        => (bpc' = "done" /\ isSignedIn' /\ ~isLoading' /\ user' = 1)
    /\ (bpc = "logout" /\ bpc' # "logout") => bpc' = "logoutRt"
    /\ (bpc = "logoutRt" /\ bpc' # "logoutRt")
        => /\ bpc' = "done"
           /\ store' = Empty
           /\ ~isSignedIn' /\ ~isLoading' /\ user' = None
\* C19: a bootstrap that finds tokens and whose profile fetch fails ends
\* Unauthenticated with TokenStore cleared and isLoading false, whatever
\* the outcome of the cleanup logout call; when the profile fetch succeeds
\* it ends Authenticated.
C19_Bootstrap == [][C19_Step]_vars

\* C19 witness: bootstrap ended after a cleanup logout whose call failed
C19_Witness ==
    /\ bpc = "done" /\ cpc[Boot] = "done" /\ res[Boot] = "eNet"
    /\ ipc = "idle" /\ upc = "idle"
    /\ store = Empty /\ ~isSignedIn /\ ~isLoading

\* C20: at bootstrap the absence of either stored value ('token' or
\* 'refreshToken') is treated as no session: the profile fetch is skipped,
\* no network call is made and the session stays Unauthenticated.
C20_EitherAbsentNoSession ==
    [][(/\ bpc = "isAuth" /\ bpc' # "isAuth"
        /\ (store.token = None \/ store.refreshToken = None))
       => (bpc' = "done" /\ cpc'[Boot] = "idle" /\ ~isSignedIn')]_vars

\* exactly one of the two keys is present
Partial(st) == (st.token = None) # (st.refreshToken = None)

\* a step in which some reader reads TokenStore: the request interceptor,
\* the 401 handler reading the refresh token, isAuthenticated
ReaderStep ==
    \/ \E p \in Callers : cpc[p] = "send" /\ cpc'[p] = "inflight"
    \/ \E p \in Callers : cpc[p] = "h401" /\ cpc'[p] # "h401"
    \/ bpc = "isAuth" /\ bpc' # "isAuth"

\* C23: the pair is stored atomically: no reader (request interceptor,
\* isAuthenticated, refresh path) ever reads TokenStore while exactly one
\* of 'token' and 'refreshToken' is present.
C23_NoPartialPairObserved == [][ReaderStep => ~Partial(store)]_vars

\* a request answered with a non-401 failure is settled at once
C26_State ==
    \A p \in Callers :
        answer[p] \in {"eHttp", "eNet"}
        => /\ cpc[p] = "done" /\ res[p] = answer[p]
           /\ nRefresh[p] = 0 /\ nReplay[p] = 0
\* the step that receives the failure touches nothing but the call
C26_Step ==
    \A p \in Callers :
        (cpc[p] = "inflight" /\ answer'[p] \in {"eHttp", "eNet"})
        => /\ store' = store /\ issued' = issued
           /\ session' = session
           /\ nRefresh' = nRefresh /\ nReplay' = nReplay
\* C26: a request through the api gateway that fails with no response or
\* with a non-401 status causes no refresh call and no replay, leaves both
\* stored tokens unchanged and is rejected with that same error.
C26_OtherErrorsPassThrough == []C26_State /\ [][C26_Step]_vars

\* C26 witness: a request rejected with its network error while a pair is
\* stored
C26_Witness ==
    \E p \in Callers :
        /\ cpc[p] = "done" /\ answer[p] = "eNet" /\ res[p] = "eNet"
        /\ nRefresh[p] = 0 /\ store = Pair(1)

\* no storage write of a token is under way
NoTokenWrite ==
    /\ \A p \in Callers :
        cpc[p] \notin {"set_token", "set_rt", "rm_token", "rm_rt"}
    /\ ipc \notin {"set_token", "set_rt"}
    /\ bpc # "logoutRt" /\ opc # "logoutRt"

\* C27: whenever both tokens are stored and no token write is in
\* progress, the stored access token and the stored refresh token were
\* issued together by one login or refresh response.
C27_StoredPairIssuedTogether ==
    (NoTokenWrite /\ store.token # None /\ store.refreshToken # None)
    => store.token = store.refreshToken

\* no session operation, no call and no refresh is in progress
Quiet == ~OpInProgress /\ \A p \in Callers : cpc[p] \in {"idle", "done"}

\* C28: whenever no session operation and no refresh is in progress and
\* isSignedIn is false, TokenStore holds no token, also after a signIn
\* whose login call stored tokens and whose profile fetch then failed.
C28_SignedOutHoldsNoToken == (Quiet /\ ~isSignedIn) => store.token = None

\* the login call and the refresh call settle without the 401 handler
C30_Step ==
    /\ (ipc = "login" /\ loginAnswer' # "ok" /\ loginAnswer' # loginAnswer)
        => /\ ipc' = "done" /\ ires' = "threwLogin"
           /\ store' = store /\ issued' = issued
           /\ cpc' = cpc /\ nRefresh' = nRefresh /\ nReplay' = nReplay
    /\ \A p \in Callers :
        (cpc[p] = "refreshing" /\ cpc'[p] # "refreshing")
        => /\ cpc'[p] \in {"set_token", "rm_token"}
           /\ nRefresh'[p] = nRefresh[p]
\* while the login call is outstanding, and once it was rejected, no call
\* has gone through the 401 handler on its behalf
C30_State ==
    /\ ipc = "login" => cpc[In] = "idle"
    /\ ires = "threwLogin" => cpc[In] = "idle"
    /\ \A p \in Callers : nRefresh[p] <= 1
\* C30: the login call and the refresh call bypass the 401 interceptor: a
\* login rejected with 401 causes no refresh call and no replay and leaves
\* the tokens already stored unchanged; a refresh call rejected with 401
\* causes no further refresh call.
C30_LoginAndRefreshBypass == []C30_State /\ [][C30_Step]_vars

\* C30 witness: a login was rejected with 401 while a refresh token was
\* stored, and no refresh call was made
C30_Witness ==
    /\ ipc = "done" /\ ires = "threwLogin" /\ loginAnswer = "e401"
    /\ store.refreshToken # None
    /\ \A p \in Callers : nRefresh[p] = 0 /\ nReplay[p] = 0

\* C22: loadUserProfile called while Authenticated leaves the session
\* state unchanged when it succeeds, and when it fails TokenStore is
\* cleared and the session becomes Unauthenticated.
C22_LoadProfile ==
    [][(lpc = "fetch" /\ lpc' = "done")
       => IF lres' = "returned"
          THEN isSignedIn' = isSignedIn /\ isLoading' = isLoading
          ELSE store' = Empty /\ ~isSignedIn']_vars

\* how bootstrapAsync may leave each of its positions
C21_Step ==
    /\ (bpc = "isAuth" /\ bpc' \notin {"isAuth", "profile"})
        => /\ bpc' = "done" /\ cpc'[Boot] = "idle"
           /\ ~isSignedIn' /\ ~isLoading' /\ user' = None
    /\ (bpc = "profile" /\ bpc' # "profile" /\ res[Boot] = "eStorage")
        => bpc' = "logout"
    /\ (bpc \in {"profile", "logout", "logoutRt"} /\ bpc' # bpc
        /\ bpc' \notin {"setSignedIn", "logout", "logoutRt"})
        => (bpc' = "done" /\ ~isSignedIn' /\ ~isLoading' /\ user' = None)
\* C21: a storage read failure during bootstrap (in isAuthenticated, in
\* the request interceptor or in the 401 handler) is treated as no
\* session: bootstrap ends with isSignedIn false and isLoading false, and
\* no error leaves bootstrapAsync.
C21_StorageErrorAtBootstrap == [](bpc # "threw") /\ [][C21_Step]_vars

\* C21 witness: bootstrap is over without any call although a token is
\* stored: the read of isAuthenticated failed
C21_Witness ==
    /\ bpc = "done" /\ cpc[Boot] = "idle" /\ store.token # None
    /\ ipc = "idle" /\ upc = "idle"
    /\ ~isSignedIn /\ ~isLoading

\* C24: login and refresh write the access token first and the refresh
\* token second, and a write that is interrupted or fails between the two
\* storage writes never leaves TokenStore holding an access token without
\* its refresh counterpart.
C24_NoAccessTokenAlone ==
    (\/ ipc = "set_rt"
     \/ ires = "threwStorage"
     \/ \E p \in Callers : cpc[p] = "set_rt")
    => (store.token # None => store.refreshToken = store.token)

\* C25: every request the gateway dispatches, a replay included, carries
\* as bearer exactly the access token TokenStore holds at that moment, and
\* no Authorization header when none is stored.
C25_BearerIsStoredToken ==
    [][\A p \in Callers :
        /\ (cpc[p] = "send" /\ cpc'[p] = "inflight")
            => hdr'[p] = store.token
        /\ (cpc[p] = "set_rt" /\ cpc'[p] = "replaying")
            => hdr'[p] = store'.token]_vars

\* C29: no stuck loading state: every bootstrap, signIn, signUp and
\* signOut leaves isLoading false once its calls have settled, whatever
\* failed on the way.
C29_NoStuckLoading == isLoading ~> ~isLoading

\* C29 witness: a signOut whose logout failed has ended, not loading
C29_Witness ==
    /\ opc = "done" /\ ores = "threw" /\ ~Succeeded(Out)
    /\ ~isLoading /\ isSignedIn
=============================================================================
